---- MODULE Spec2Model ----
(***************************************************************************)
(* Model of scripts/github-issue-to-jira.mjs: one run of the script turns  *)
(* a GitHub issue-form event into a Jira ticket and comments back on the   *)
(* issue.  JavaScript strings are sequences of one-character strings, so   *)
(* that trimming, prefix tests and label sanitization are computed.        *)
(***************************************************************************)
EXTENDS Integers, Sequences, FiniteSets, TLC

(***************************************************************************)
(* JavaScript values of the parsed form.                                   *)
(***************************************************************************)
Undef == [t |-> "undefined"]
Null == [t |-> "null"]
Str(s) == [t |-> "string", s |-> s]
Arr(a) == [t |-> "array", a |-> a]
Chk(sel, unsel) == [t |-> "checkboxes", selected |-> sel, unselected |-> unsel]
Num(n) == [t |-> "number", n |-> n]
Obj == [t |-> "object"]

Whitespace == {" ", "\t", "\n", "\r"}
UpperCs == <<"A", "B", "C", "D", "E", "F", "G", "H", "I", "J", "K", "L", "M",
             "N", "O", "P", "Q", "R", "S", "T", "U", "V", "W", "X", "Y", "Z">>
LowerCs == <<"a", "b", "c", "d", "e", "f", "g", "h", "i", "j", "k", "l", "m",
             "n", "o", "p", "q", "r", "s", "t", "u", "v", "w", "x", "y", "z">>
Digits == <<"0", "1", "2", "3", "4", "5", "6", "7", "8", "9">>

Range(f) == {f[i] : i \in DOMAIN f}

\* String.prototype.toLowerCase on one character
ToLowerChar(c) ==
    IF \E i \in DOMAIN UpperCs : UpperCs[i] = c
    THEN LowerCs[CHOOSE i \in DOMAIN UpperCs : UpperCs[i] = c]
    ELSE c

toLowerCase(s) == [i \in DOMAIN s |-> ToLowerChar(s[i])]

\* String.prototype.startsWith
startsWith(s, p) == Len(s) >= Len(p) /\ SubSeq(s, 1, Len(p)) = p

RECURSIVE TrimStart(_)
TrimStart(s) ==
    IF s # <<>> /\ Head(s) \in Whitespace THEN TrimStart(Tail(s)) ELSE s

RECURSIVE TrimEnd(_)
TrimEnd(s) ==
    IF s # <<>> /\ s[Len(s)] \in Whitespace
    THEN TrimEnd(SubSeq(s, 1, Len(s) - 1))
    ELSE s

\* String.prototype.trim
trim(s) == TrimEnd(TrimStart(s))

\* Array.prototype.join for an array of strings
RECURSIVE join(_, _)
join(a, sep) ==
    IF a = <<>> THEN <<>>
    ELSE IF Len(a) = 1 THEN a[1]
    ELSE a[1] \o sep \o join(Tail(a), sep)

\* decimal text of a non-negative integer, as a template literal prints it
RECURSIVE NumToStr(_)
NumToStr(n) ==
    IF n < 10 THEN <<Digits[n + 1]>>
    ELSE NumToStr(n \div 10) \o <<Digits[(n % 10) + 1]>>

\* String(v)
String(v) ==
    CASE v.t = "string" -> v.s
      [] v.t = "array" -> join(v.a, <<",">>)
      [] v.t = "number" -> NumToStr(v.n)
      [] v.t = "undefined" -> <<"u", "n", "d", "e", "f", "i", "n", "e", "d">>
      [] v.t = "null" -> <<"n", "u", "l", "l">>
      [] OTHER -> <<"[", "o", "b", "j", "e", "c", "t", " ",
                    "O", "b", "j", "e", "c", "t", "]">>

(***************************************************************************)
(* Field identifiers of the issue template.                                *)
(***************************************************************************)
IdSeverity == <<"s", "e", "v", "e", "r", "i", "t", "y">>
IdSdkVersion == <<"s", "d", "k", "-", "v", "e", "r", "s", "i", "o", "n">>
IdSdkVersionOther ==
    <<"s", "d", "k", "-", "v", "e", "r", "s", "i", "o", "n", "-", "o", "t", "h", "e", "r">>
IdAndroidVersion ==
    <<"a", "n", "d", "r", "o", "i", "d", "-", "v", "e", "r", "s", "i", "o", "n">>
IdDevice == <<"d", "e", "v", "i", "c", "e">>
IdGradleVersion ==
    <<"g", "r", "a", "d", "l", "e", "-", "v", "e", "r", "s", "i", "o", "n">>
IdKotlinVersion ==
    <<"k", "o", "t", "l", "i", "n", "-", "v", "e", "r", "s", "i", "o", "n">>
IdStepsToReproduce ==
    <<"s", "t", "e", "p", "s", "-", "t", "o", "-", "r", "e", "p", "r", "o", "d", "u", "c", "e">>
IdExpectedBehavior ==
    <<"e", "x", "p", "e", "c", "t", "e", "d", "-", "b", "e", "h", "a", "v", "i", "o", "r">>
IdActualBehavior ==
    <<"a", "c", "t", "u", "a", "l", "-", "b", "e", "h", "a", "v", "i", "o", "r">>
IdLogs == <<"l", "o", "g", "s">>
IdAdditionalContext ==
    <<"a", "d", "d", "i", "t", "i", "o", "n", "a", "l", "-", "c", "o", "n", "t", "e", "x", "t">>
IdConfirmations == <<"c", "o", "n", "f", "i", "r", "m", "a", "t", "i", "o", "n", "s">>

FIELD_IDS ==
    <<IdSeverity, IdSdkVersion, IdSdkVersionOther, IdAndroidVersion, IdDevice,
      IdGradleVersion, IdKotlinVersion, IdStepsToReproduce, IdExpectedBehavior,
      IdActualBehavior, IdLogs, IdAdditionalContext, IdConfirmations>>

\* form[id]: a key the form does not have reads as undefined
FormGet(form, id) == IF id \in DOMAIN form THEN form[id] ELSE Undef

(***************************************************************************)
(* Helpers of the script.                                                  *)
(***************************************************************************)
\* isMissing without the trim: a whitespace-only string counts as entered
isMissing_noTrim(v) ==
    IF v.t \in {"undefined", "null"} THEN TRUE
    ELSE IF v.t = "array" THEN Len(v.a) = 0
    ELSE IF v.t = "string" THEN Len(v.s) = 0
    ELSE IF v.t = "checkboxes"
         THEN Len(v.selected) = 0 /\ Len(v.unselected) = 0
    ELSE FALSE

isMissing(v) ==
    IF v.t \in {"undefined", "null"} THEN TRUE
    ELSE IF v.t = "array" THEN Len(v.a) = 0
    ELSE IF v.t = "string" THEN Len(trim(v.s)) = 0
    ELSE IF v.t = "checkboxes"
         THEN Len(v.selected) = 0 /\ Len(v.unselected) = 0
    ELSE FALSE

normalizeValue(v) ==
    IF v.t = "array" THEN Str(join(v.a, <<",", " ">>))
    ELSE IF v.t = "checkboxes" THEN Chk(v.selected, v.unselected)
    ELSE Str(String(v))

MissingText(id) ==
    <<"F", "i", "e", "l", "d", " ">> \o id
        \o <<" ", "w", "a", "s", "n", "'", "t", " ", "e", "n", "t", "e", "r", "e", "d", ".">>

valueOrMissing(form, id) ==
    LET v == FormGet(form, id)
    IN  IF isMissing(v) THEN Str(MissingText(id)) ELSE normalizeValue(v)

\* .replace(/\s+/g, "-"): every run of whitespace becomes one hyphen
RECURSIVE ReplaceWhitespaceRuns(_)
ReplaceWhitespaceRuns(s) ==
    IF s = <<>> THEN <<>>
    ELSE IF Head(s) \in Whitespace
         THEN <<"-">> \o ReplaceWhitespaceRuns(TrimStart(s))
         ELSE <<Head(s)>> \o ReplaceWhitespaceRuns(Tail(s))

LabelChars == Range(LowerCs) \cup Range(Digits) \cup {"-", "_"}

\* .replace(/[^a-z0-9-_]/g, "-")
ReplaceOtherChars(s) ==
    [i \in DOMAIN s |-> IF s[i] \in LabelChars THEN s[i] ELSE "-"]

\* .replace(/-+/g, "-")
RECURSIVE CollapseHyphens(_)
CollapseHyphens(s) ==
    IF s = <<>> THEN <<>>
    ELSE IF Len(s) >= 2 /\ s[1] = "-" /\ s[2] = "-"
         THEN CollapseHyphens(Tail(s))
         ELSE <<Head(s)>> \o CollapseHyphens(Tail(s))

\* .replace(/^-|-$/g, ""): one leading and one trailing hyphen are removed
StripHyphenEnds(s) ==
    LET a == IF s # <<>> /\ Head(s) = "-" THEN Tail(s) ELSE s
    IN  IF a # <<>> /\ a[Len(a)] = "-" THEN SubSeq(a, 1, Len(a) - 1) ELSE a

sanitizeLabel(v) ==
    StripHyphenEnds(CollapseHyphens(ReplaceOtherChars(
        ReplaceWhitespaceRuns(toLowerCase(String(v))))))

(***************************************************************************)
(* Priority, effective SDK version and labels.                             *)
(***************************************************************************)
MajorNotWorking ==
    <<"M", "a", "j", "o", "r", " ", "f", "u", "n", "c", "t", "i", "o", "n", "a", "l", "i",
      "t", "y", " ", "n", "o", "t", " ", "w", "o", "r", "k", "i", "n", "g">>
OtherSpecifyBelow ==
    <<"O", "t", "h", "e", "r", " ", "(", "s", "p", "e", "c", "i", "f", "y", " ",
      "b", "e", "l", "o", "w", ")">>

\* Array.isArray(v) ? v[0] : undefined
FirstIfArray(v) ==
    IF v.t = "array" /\ Len(v.a) > 0 THEN Str(v.a[1]) ELSE Undef

severityOf(form) == FirstIfArray(FormGet(form, IdSeverity))

\* isP1 with equality in place of startsWith
isP1_exactMatch(form) ==
    LET severity == severityOf(form)
    IN  severity.t = "string" /\ severity.s = MajorNotWorking

isP1(form) ==
    LET severity == severityOf(form)
    IN  severity.t = "string" /\ startsWith(severity.s, MajorNotWorking)

PriorityName(form) == IF isP1(form) THEN "High" ELSE "Medium"

\* a ?? b
Coalesce(a, b) == IF a.t \in {"undefined", "null"} THEN b ELSE a

\* effectiveSdkVersion without the "Other (specify below)" branch
effectiveSdkVersion_ignoresOther(form) ==
    Coalesce(FirstIfArray(FormGet(form, IdSdkVersion)),
             Str(<<"u", "n", "k", "n", "o", "w", "n">>))

effectiveSdkVersion(form) ==
    LET sdkVersion == FirstIfArray(FormGet(form, IdSdkVersion))
        sdkVersionOther == FormGet(form, IdSdkVersionOther)
    IN  IF sdkVersion = Str(OtherSpecifyBelow)
        THEN Coalesce(sdkVersionOther, Str(<<"O", "t", "h", "e", "r">>))
        ELSE Coalesce(sdkVersion, Str(<<"u", "n", "k", "n", "o", "w", "n">>))

\* (issue.labels ?? []).map(l => l.name).filter(Boolean)
GhLabelsOf(issue) ==
    LET names == IF issue.labels.t = "array" THEN issue.labels.a ELSE <<>>
    IN  SelectSeq(names, LAMBDA n : n # <<>>)

\* the label list without the Set: duplicates stay
UniqueInOrder_keepsDuplicates(xs) == xs

\* Array.from(new Set(xs)): first occurrences, in insertion order
UniqueInOrder(xs) ==
    LET first == {i \in DOMAIN xs : \A j \in 1..(i - 1) : xs[j] # xs[i]}
        nth(k) == CHOOSE i \in first : Cardinality({j \in first : j <= i}) = k
    IN  [k \in 1..Cardinality(first) |-> xs[nth(k)]]

LabelCap == 50

\* the label list without the slice
SliceTo_noCap(xs, n) == xs

\* Array.prototype.slice(0, n)
SliceTo(xs, n) == SubSeq(xs, 1, IF Len(xs) < n THEN Len(xs) ELSE n)

FixedLabels ==
    << <<"c", "m", "p">>,
       <<"a", "n", "d", "r", "o", "i", "d">>,
       <<"s", "o", "u", "r", "c", "e", "-", "g", "i", "t", "h", "u", "b">> >>

IssueLabel(issueNumber) ==
    <<"g", "h", "-", "i", "s", "s", "u", "e", "-">> \o NumToStr(issueNumber)

SdkLabel(form) == <<"s", "d", "k", "-">> \o sanitizeLabel(effectiveSdkVersion(form))

BuildJiraLabels(issueNumber, form, ghLabels) ==
    SliceTo(
        UniqueInOrder(
            FixedLabels \o <<IssueLabel(issueNumber), SdkLabel(form)>>
                \o [i \in DOMAIN ghLabels |-> sanitizeLabel(Str(ghLabels[i]))]),
        LabelCap)

BuildFieldLog(form) == [id \in Range(FIELD_IDS) |-> valueOrMissing(form, id)]

(***************************************************************************)
(* JSON.stringify of the values a field can hold.                          *)
(***************************************************************************)
JsonEscapeChar(c) ==
    CASE c = "\"" -> <<"\\", "\"">>
      [] c = "\\" -> <<"\\", "\\">>
      [] c = "\n" -> <<"\\", "n">>
      [] c = "\t" -> <<"\\", "t">>
      [] c = "\r" -> <<"\\", "r">>
      [] OTHER -> <<c>>

RECURSIVE JsonEscape(_)
JsonEscape(s) ==
    IF s = <<>> THEN <<>> ELSE JsonEscapeChar(Head(s)) \o JsonEscape(Tail(s))

JsonString(s) == <<"\"">> \o JsonEscape(s) \o <<"\"">>

Spaces(n) == [i \in 1..n |-> " "]

\* an array of strings; indent = 0 is the compact form, depth the nesting level
JsonArray(a, indent, depth) ==
    IF a = <<>> THEN <<"[", "]">>
    ELSE IF indent = 0
         THEN <<"[">> \o join([i \in DOMAIN a |-> JsonString(a[i])], <<",">>) \o <<"]">>
         ELSE <<"[", "\n">>
              \o join([i \in DOMAIN a |-> Spaces(indent * (depth + 1)) \o JsonString(a[i])],
                      <<",", "\n">>)
              \o <<"\n">> \o Spaces(indent * depth) \o <<"]">>

JsonStringify(v, indent) ==
    IF v.t = "string" THEN JsonString(v.s)
    ELSE \* { selected: [...], unselected: [...] }
        LET nl == IF indent = 0 THEN <<>> ELSE <<"\n">>
            colon == IF indent = 0 THEN <<":">> ELSE <<":", " ">>
        IN  <<"{">> \o nl \o Spaces(indent)
            \o JsonString(<<"s", "e", "l", "e", "c", "t", "e", "d">>) \o colon
            \o JsonArray(v.selected, indent, 1) \o <<",">> \o nl \o Spaces(indent)
            \o JsonString(<<"u", "n", "s", "e", "l", "e", "c", "t", "e", "d">>) \o colon
            \o JsonArray(v.unselected, indent, 1) \o nl \o <<"}">>

(***************************************************************************)
(* Atlassian Document Format helpers and the description.                  *)
(***************************************************************************)
adfParagraph(text) == [type |-> "paragraph", text |-> text]
adfHeading(text, level) == [type |-> "heading", level |-> level, text |-> text]
adfCodeBlock(code, language) ==
    [type |-> "codeBlock", language |-> language, text |-> code]

\* typeof x === "string" ? x : JSON.stringify(x, null, indent)
TextOf(x, indent) == IF x.t = "string" THEN x.s ELSE JsonStringify(x, indent)

LogsBlock(logs) ==
    IF logs.t = "string" /\ startsWith(logs.s, <<"F", "i", "e", "l", "d", " ">>)
    THEN adfParagraph(logs.s)
    ELSE adfCodeBlock(TextOf(logs, 2), "shell")

BuildDescriptionContent(issue, fields) ==
    LET ids == SelectSeq(FIELD_IDS, LAMBDA id : id # IdLogs)
    IN  << adfHeading(<<"G", "i", "t", "H", "u", "b", " ", "I", "s", "s", "u", "e">>, 2),
           adfParagraph(<<"#">> \o NumToStr(issue.number) \o <<" ", "b", "y", " ">>
                            \o issue.author),
           adfParagraph(issue.url),
           adfHeading(<<"F", "o", "r", "m", " ", "F", "i", "e", "l", "d", "s">>, 2) >>
        \o [i \in DOMAIN ids |->
               adfParagraph(ids[i] \o <<":", " ">> \o TextOf(fields[ids[i]], 0))]
        \o << adfHeading(IdLogs, 2), LogsBlock(fields[IdLogs]) >>

BuildJiraPayload(issue, priority, labels, description) ==
    [ summary |-> trim(<<"[", "A", "n", "d", "r", "o", "i", "d", " ", "S", "D", "K", "]", " ">>
                          \o issue.title),
      priority |-> priority,
      labels |-> labels,
      description |-> description,
      issueNumber |-> issue.number ]

(***************************************************************************)
(* Inputs: issue events the workflow can hand to the script.               *)
(***************************************************************************)
MaxRuns == 2
MaxGhLabels == 2
NumLongLabels == 60

TxtStacktrace == <<"s", "t", "a", "c", "k", "t", "r", "a", "c", "e", ".", ".", ".">>
TxtFieldXIsNull ==
    <<"F", "i", "e", "l", "d", " ", "x", " ", "i", "s", " ", "n", "u", "l", "l">>
TxtMinorIssue == <<"M", "i", "n", "o", "r", " ", "i", "s", "s", "u", "e">>
TxtAppCrashes == <<" ", "-", " ", "a", "p", "p", " ", "c", "r", "a", "s", "h", "e", "s">>
TxtBeta == <<"1", "4", ".", "2", ".", "0", "-", "b", "e", "t", "a">>
TxtRelease == <<"1", "4", ".", "2", ".", "0">>
TxtGalaxy ==
    <<"G", "a", "l", "a", "x", "y", " ", "S", "2", "1", " ", "U", "l", "t", "r", "a", "!">>
IdUnknownField ==
    <<"u", "n", "k", "n", "o", "w", "n", "-", "f", "i", "e", "l", "d">>

\* raw values the form parser can report for a field
RawValues ==
    { Undef, Null, Arr(<<>>), Str(<<>>), Str(<<" ", " ", " ">>), Str(<<" ", "\t", "\n">>),
      Chk(<<>>, <<>>), Num(0), Obj,
      Str(<<"x">>), Str(<<" ", "x", " ">>), Arr(<<<<"a">>>>), Arr(<<<<"a">>, <<"b">>>>),
      Arr(<<<<>>>>), Chk(<<<<"A">>>>, <<<<"B">>>>), Chk(<<<<"a">>>>, <<>>),
      Chk(<<>>, <<<<"b">>>>),
      Arr(<<MajorNotWorking>>), Arr(<<MajorNotWorking \o TxtAppCrashes>>),
      Arr(<<SubSeq(MajorNotWorking, 1, 19)>>), Arr(<<toLowerCase(MajorNotWorking)>>),
      Arr(<<TxtMinorIssue, MajorNotWorking>>), Arr(<<TxtMinorIssue>>),
      Str(MajorNotWorking),
      Arr(<<OtherSpecifyBelow>>), Arr(<<TxtRelease>>), Arr(<<TxtRelease, TxtBeta>>),
      Str(TxtBeta), Str(TxtGalaxy),
      Str(TxtStacktrace), Str(TxtFieldXIsNull), Arr(<<TxtFieldXIsNull>>) }

\* a reporter can also type the placeholder text of the field itself
RawValuesFor(id) == RawValues \cup {Str(MissingText(id)), Arr(<<MissingText(id)>>)}

FilledForm ==
    [id \in Range(FIELD_IDS) \cup {IdUnknownField} |->
        CASE id = IdSeverity -> Arr(<<TxtMinorIssue>>)
          [] id = IdSdkVersion -> Arr(<<TxtRelease>>)
          [] id = IdConfirmations -> Chk(<<<<"A">>>>, <<<<"B">>>>)
          [] id = IdLogs -> Str(TxtStacktrace)
          [] OTHER -> Str(<<"x">>)]

EmptyForm == [id \in {} |-> Undef]

\* form with the value of one field replaced (or one key added)
WithField(form, id, v) ==
    [k \in DOMAIN form \cup {id} |-> IF k = id THEN v ELSE form[k]]

SdkForms ==
    { WithField(WithField(FilledForm, IdSdkVersion, sv), IdSdkVersionOther, so) :
        sv \in {Arr(<<OtherSpecifyBelow>>), Arr(<<OtherSpecifyBelow, TxtRelease>>),
                Arr(<<TxtRelease>>), Str(OtherSpecifyBelow), Undef},
        so \in {Undef, Null, Str(<<>>), Str(TxtBeta), Str(TxtGalaxy), Arr(<<TxtBeta>>)} }

Forms ==
    { WithField(FilledForm, id, v) :
        <<id, v>> \in UNION { {<<i, w>> : w \in RawValuesFor(i)} :
                               i \in Range(FIELD_IDS) \cup {IdUnknownField} } }
    \cup SdkForms \cup {EmptyForm}

\* label names a repository can carry; the empty name is dropped by filter(Boolean)
LabelNames ==
    { <<"C", "M", "P">>, TxtGalaxy,
      <<"g", "h", " ", "i", "s", "s", "u", "e", " ", "4", "2">>, <<"!", "!">>, <<>> }

SeqsUpTo(S, n) == UNION { [1..k -> S] : k \in 0..n }

GenLabel(i) == <<"L", " ">> \o NumToStr(i)

\* n generated names, of which the first m are distinct
LongLabels(n, m) == [i \in 1..n |-> GenLabel(((i - 1) % m) + 1)]

LabelLists ==
    SeqsUpTo(LabelNames, MaxGhLabels)
    \cup { LongLabels(n, m) :
             n \in {LabelCap - 5, LabelCap - 4, NumLongLabels},
             m \in {LabelCap - 10, NumLongLabels} }
    \cup { <<<<"C", "M", "P">>, GenLabel(1)>> \o LongLabels(NumLongLabels, NumLongLabels) }

MakeIssue(number, labels, form) ==
    [ number |-> number,
      title |-> <<"C", "r", "a", "s", "h", " ", "o", "n", " ", "l", "a", "u", "n", "c", "h", " ">>,
      url |-> <<"h", "t", "t", "p", "s", ":", "/", "/", "x", "/">> \o NumToStr(number),
      author |-> <<"a", "l", "i", "c", "e">>,
      labels |-> labels,
      form |-> form ]

Events ==
    { [hasIssue |-> TRUE, issue |-> MakeIssue(42, Arr(<<TxtGalaxy>>), f)] : f \in Forms }
    \cup { [hasIssue |-> TRUE, issue |-> MakeIssue(n, Arr(ls), FilledForm)] :
             n \in {7, 42}, ls \in LabelLists }
    \cup { [hasIssue |-> TRUE, issue |-> MakeIssue(7, Undef, FilledForm)] }
    \cup { [hasIssue |-> FALSE, issue |-> MakeIssue(0, Undef, EmptyForm)] }

RequiredEnv ==
    <<"ISSUE_TEMPLATE_PATH", "JIRA_BASE_URL", "JIRA_EMAIL", "JIRA_API_TOKEN", "GITHUB_TOKEN">>

AllEnv == Range(RequiredEnv) \cup {"GITHUB_EVENT_PATH", "GITHUB_REPOSITORY"}

\* the variables the workflow sets for a run: all, all but one, or two missing
EnvChoices ==
    {AllEnv} \cup {AllEnv \ {v} : v \in AllEnv}
             \cup {AllEnv \ {"JIRA_EMAIL", "GITHUB_TOKEN"}}

\* HTTP statuses the two services can answer with
Statuses == {201, 400, 503}
ResOk(status) == status >= 200 /\ status <= 299

(***************************************************************************)
(* State.                                                                  *)
(***************************************************************************)
VARIABLES
    event,              \* GH_EVENT, the payload of the triggering issue event
    env,                \* names of the environment variables set for this run
    run,                \* number of the current invocation on this event
    pc,                 \* position of the run in the script
    error,              \* the error thrown to the top level, if any
    ghLabels, form, jiraPriorityName, fieldLog, jiraLabels,
    descriptionContent, jiraPayload,
    response,           \* res of the last fetch
    jiraKey,            \* created.key: n stands for the key <project>-n
    requests,           \* outbound requests this run has issued, in order
    log,                \* console output of this run
    tickets,            \* tickets in the tracker
    comments            \* comments on the GitHub issue

vars ==
    <<event, env, run, pc, error, ghLabels, form, jiraPriorityName, fieldLog,
      jiraLabels, descriptionContent, jiraPayload, response, jiraKey, requests,
      log, tickets, comments>>

derived ==
    <<ghLabels, form, jiraPriorityName, fieldLog, jiraLabels, descriptionContent,
      jiraPayload>>

NoError == [kind |-> "none"]
NoResponse == [status |-> 0]
NoPayload == [summary |-> <<>>]

Lit(s) == [k |-> "text", s |-> s]
KeyPart(n) == [k |-> "jiraKey", n |-> n]
\* jiraBrowseUrl = `${JIRA_BASE_URL}/browse/${jiraKey}`
BrowseUrlParts(n) == <<Lit("<JIRA_BASE_URL>/browse/"), KeyPart(n)>>

\* the template literal ticketCreated, as its literal and interpolated parts
ticketCreated(n) ==
    <<Lit("Created internal Jira ticket: **"), KeyPart(n), Lit("**\n\n")>>
    \o BrowseUrlParts(n)
    \o <<Lit("\n\n<!-- jira-key:"), KeyPart(n), Lit(" -->")>>

commentBody ==
    <<Lit("Thanks for the report - we've received it and will triage it internally.\n\n"),
      Lit("Our SDK engineering team has been notified and will follow this issue for updates.\n\n"),
      Lit("Please keep updates here (repro steps, logs, screenshots, or a minimal repro repo) so we can move faster.")>>

StartOfScript ==
    /\ pc = "loadConfig"
    /\ error = NoError
    /\ ghLabels = <<>>
    /\ form = EmptyForm
    /\ jiraPriorityName = ""
    /\ fieldLog = EmptyForm
    /\ jiraLabels = <<>>
    /\ descriptionContent = <<>>
    /\ jiraPayload = NoPayload
    /\ response = NoResponse
    /\ jiraKey = 0
    /\ requests = <<>>
    /\ log = <<>>

Init ==
    /\ event \in Events
    /\ env \in EnvChoices
    /\ run = 1
    /\ tickets = <<>>
    /\ comments = <<>>
    /\ StartOfScript

Throw(e) ==
    /\ error' = e
    /\ pc' = "failed"

(***************************************************************************)
(* The steps of the script.                                                *)
(***************************************************************************)
\* requiredEnv(...) for each required variable, in the order of the script
LoadConfig ==
    /\ pc = "loadConfig"
    /\ LET missing == SelectSeq(RequiredEnv, LAMBDA n : n \notin env)
       IN  IF missing # <<>>
           THEN Throw([kind |-> "ConfigurationError", name |-> Head(missing)])
           ELSE pc' = "readEvent" /\ error' = error
    /\ UNCHANGED <<event, env, run, derived, response, jiraKey, requests, log,
                   tickets, comments>>

\* read GH_EVENT, take its issue, split GITHUB_REPOSITORY, collect the labels
ReadEvent ==
    /\ pc = "readEvent"
    /\ IF "GITHUB_EVENT_PATH" \notin env
       THEN Throw([kind |-> "TypeError", name |-> "GITHUB_EVENT_PATH"])
                /\ ghLabels' = ghLabels
       ELSE IF ~event.hasIssue
       THEN Throw([kind |-> "PayloadError"]) /\ ghLabels' = ghLabels
       ELSE IF "GITHUB_REPOSITORY" \notin env
       THEN Throw([kind |-> "TypeError", name |-> "GITHUB_REPOSITORY"])
                /\ ghLabels' = ghLabels
       ELSE /\ ghLabels' = GhLabelsOf(event.issue)
            /\ pc' = "parseForm"
            /\ error' = error
    /\ UNCHANGED <<event, env, run, form, jiraPriorityName, fieldLog, jiraLabels,
                   descriptionContent, jiraPayload, response, jiraKey, requests,
                   log, tickets, comments>>

\* form = parseIssue(issueBody, templateYaml): the parser is an external library
ParseForm ==
    /\ pc = "parseForm"
    /\ form' = event.issue.form
    /\ pc' = "derive"
    /\ UNCHANGED <<event, env, run, error, ghLabels, jiraPriorityName, fieldLog,
                   jiraLabels, descriptionContent, jiraPayload, response, jiraKey,
                   requests, log, tickets, comments>>

\* priority, field log and labels
Derive ==
    /\ pc = "derive"
    /\ jiraPriorityName' = PriorityName(form)
    /\ fieldLog' = BuildFieldLog(form)
    /\ jiraLabels' = BuildJiraLabels(event.issue.number, form, ghLabels)
    /\ log' = Append(log, [line |-> "fields"])
    /\ pc' = "buildPayload"
    /\ UNCHANGED <<event, env, run, error, ghLabels, form, descriptionContent,
                   jiraPayload, response, jiraKey, requests, tickets, comments>>

BuildPayload ==
    /\ pc = "buildPayload"
    /\ descriptionContent' = BuildDescriptionContent(event.issue, fieldLog)
    /\ jiraPayload' = BuildJiraPayload(event.issue, jiraPriorityName, jiraLabels,
                                       descriptionContent')
    /\ pc' = "createIssue"
    /\ UNCHANGED <<event, env, run, error, ghLabels, form, jiraPriorityName,
                   fieldLog, jiraLabels, response, jiraKey, requests, log,
                   tickets, comments>>

\* jiraCreateIssue that first looks for a ticket of the same issue and reuses it
JiraCreateIssueFetch_idempotent ==
    /\ pc = "createIssue"
    /\ requests' = Append(requests, [to |-> "jira", method |-> "POST"])
    /\ \E status \in Statuses :
          IF ResOk(status)
          THEN IF \E i \in DOMAIN tickets :
                      tickets[i].issueNumber = jiraPayload.issueNumber
               THEN /\ tickets' = tickets
                    /\ response' =
                          [status |-> status,
                           key |-> tickets[CHOOSE i \in DOMAIN tickets :
                                      tickets[i].issueNumber = jiraPayload.issueNumber].key]
               ELSE /\ tickets' = Append(tickets,
                           [key |-> Len(tickets) + 1,
                            issueNumber |-> jiraPayload.issueNumber,
                            summary |-> jiraPayload.summary])
                    /\ response' = [status |-> status, key |-> Len(tickets) + 1]
          ELSE /\ tickets' = tickets
               /\ response' = [status |-> status]
    /\ pc' = "awaitCreate"
    /\ UNCHANGED <<event, env, run, error, derived, jiraKey, log, comments>>

\* jiraCreateIssue up to its first await: the POST and the tracker's answer
JiraCreateIssueFetch ==
    /\ pc = "createIssue"
    /\ requests' = Append(requests, [to |-> "jira", method |-> "POST"])
    /\ \E status \in Statuses :
          IF ResOk(status)
          THEN /\ tickets' = Append(tickets,
                      [key |-> Len(tickets) + 1,
                       issueNumber |-> jiraPayload.issueNumber,
                       summary |-> jiraPayload.summary])
               /\ response' = [status |-> status, key |-> Len(tickets) + 1]
          ELSE /\ tickets' = tickets
               /\ response' = [status |-> status]
    /\ pc' = "awaitCreate"
    /\ UNCHANGED <<event, env, run, error, derived, jiraKey, log, comments>>

\* jiraCreateIssue without the res.ok test: a failed creation goes on to the comment
JiraCreateIssueReturn_ignoresStatus ==
    /\ pc = "awaitCreate"
    /\ jiraKey' = IF ResOk(response.status) THEN response.key ELSE 0
    /\ log' = Append(log, [line |-> "created", key |-> jiraKey'])
    /\ pc' = "comment"
    /\ error' = error
    /\ UNCHANGED <<event, env, run, derived, response, requests, tickets, comments>>

\* the rest of jiraCreateIssue and the assignment of jiraKey
JiraCreateIssueReturn ==
    /\ pc = "awaitCreate"
    /\ IF ~ResOk(response.status)
       THEN /\ Throw([kind |-> "TicketCreationError", status |-> response.status])
            /\ UNCHANGED <<jiraKey, log>>
       ELSE /\ jiraKey' = response.key
            /\ log' = Append(log, [line |-> "created", key |-> response.key])
            /\ pc' = "comment"
            /\ error' = error
    /\ UNCHANGED <<event, env, run, derived, response, requests, tickets, comments>>

\* ticketCreated is logged; ghCreateComment(commentBody) up to its await
GhCreateCommentFetch ==
    /\ pc = "comment"
    /\ log' = Append(log, [line |-> "ticketCreated", text |-> ticketCreated(jiraKey)])
    /\ requests' = Append(requests,
                          [to |-> "github", method |-> "POST", body |-> commentBody])
    /\ \E status \in Statuses :
          /\ response' = [status |-> status]
          /\ comments' = IF ResOk(status)
                         THEN Append(comments,
                                     [issueNumber |-> event.issue.number,
                                      body |-> commentBody])
                         ELSE comments
    /\ pc' = "awaitComment"
    /\ UNCHANGED <<event, env, run, error, derived, jiraKey, tickets>>

\* ghCreateComment that posts once more after a failed comment
GhCreateCommentReturn_retries ==
    /\ pc = "awaitComment"
    /\ IF ~ResOk(response.status)
       THEN IF Len(requests) < 3
            THEN pc' = "comment" /\ error' = error /\ log' = log
            ELSE /\ Throw([kind |-> "CommentPostError", status |-> response.status])
                 /\ log' = log
       ELSE /\ log' = Append(log, [line |-> "commented"])
            /\ pc' = "done"
            /\ error' = error
    /\ UNCHANGED <<event, env, run, derived, response, jiraKey, requests, tickets,
                   comments>>

GhCreateCommentReturn ==
    /\ pc = "awaitComment"
    /\ IF ~ResOk(response.status)
       THEN /\ Throw([kind |-> "CommentPostError", status |-> response.status])
            /\ log' = log
       ELSE /\ log' = Append(log, [line |-> "commented"])
            /\ pc' = "done"
            /\ error' = error
    /\ UNCHANGED <<event, env, run, derived, response, jiraKey, requests, tickets,
                   comments>>

\* the workflow is triggered again for the same issue event
StartRun ==
    /\ pc \in {"done", "failed"}
    /\ run < MaxRuns
    /\ run' = run + 1
    /\ env' \in EnvChoices
    /\ pc' = "loadConfig"
    /\ error' = NoError
    /\ ghLabels' = <<>>
    /\ form' = EmptyForm
    /\ jiraPriorityName' = ""
    /\ fieldLog' = EmptyForm
    /\ jiraLabels' = <<>>
    /\ descriptionContent' = <<>>
    /\ jiraPayload' = NoPayload
    /\ response' = NoResponse
    /\ jiraKey' = 0
    /\ requests' = <<>>
    /\ log' = <<>>
    /\ UNCHANGED <<event, tickets, comments>>

Next ==
    \/ LoadConfig
    \/ ReadEvent
    \/ ParseForm
    \/ Derive
    \/ BuildPayload
    \/ JiraCreateIssueFetch
    \/ JiraCreateIssueReturn
    \/ GhCreateCommentFetch
    \/ GhCreateCommentReturn
    \/ StartRun

Spec == Init /\ [][Next]_vars

(***************************************************************************)
(* Properties.                                                             *)
(***************************************************************************)
RequestsTo(reqs, service) == {i \in DOMAIN reqs : reqs[i].to = service}

FieldIdSet ==
    { IdSeverity, IdSdkVersion, IdSdkVersionOther, IdAndroidVersion, IdDevice,
      IdGradleVersion, IdKotlinVersion, IdStepsToReproduce, IdExpectedBehavior,
      IdActualBehavior, IdLogs, IdAdditionalContext, IdConfirmations }

\* the raw value the parsed form of the event holds for a field
RawField(id) ==
    IF id \in DOMAIN event.issue.form THEN event.issue.form[id] ELSE Undef

\* absent or empty, in the words of the specification
RawMissing(v) ==
    \/ v = Undef
    \/ v = Null
    \/ v = Arr(<<>>)
    \/ v.t = "string" /\ \A i \in DOMAIN v.s : v.s[i] \in Whitespace
    \/ v = Chk(<<>>, <<>>)

\* C1: a comment request is issued only after the ticket-creation request of the
\* same run has returned a success status (the run holds the key of a ticket that
\* exists in the tracker); a run whose ticket creation failed issues no comment
\* request.
C1_CommentOnlyAfterCreation ==
    /\ \A i \in RequestsTo(requests, "github") :
          /\ \E j \in 1..(i - 1) : requests[j].to = "jira"
          /\ jiraKey # 0
          /\ \E t \in DOMAIN tickets : tickets[t].key = jiraKey
          /\ \E l \in DOMAIN log : log[l] = [line |-> "created", key |-> jiraKey]
    /\ error.kind = "TicketCreationError" => RequestsTo(requests, "github") = {}

C1_Witness ==
    /\ pc = "awaitComment"
    /\ Len(requests) = 2
    /\ requests[2].to = "github"

\* C2: the body of every comment the run posts contains the key of the ticket the
\* tracker created in this run.
C2_CommentReferencesTicket ==
    \A i \in RequestsTo(requests, "github") :
        KeyPart(jiraKey) \in Range(requests[i].body)

\* C3: the label set of the ticket payload has at most 50 entries, no two equal.
C3_LabelsCappedAndDistinct ==
    jiraPayload # NoPayload =>
        /\ Len(jiraPayload.labels) <= 50
        /\ \A i, j \in DOMAIN jiraPayload.labels :
              jiraPayload.labels[i] = jiraPayload.labels[j] => i = j

C3_Witness ==
    /\ jiraPayload # NoPayload
    /\ Len(jiraPayload.labels) = 50
    /\ Len(ghLabels) > 50
    /\ \E i, j \in DOMAIN ghLabels : i # j /\ ghLabels[i] = ghLabels[j]

\* C4: the first failure of a run is terminal.  Once an error is thrown the run
\* changes nothing any more; a configuration or payload error leaves no request
\* issued, a ticket-creation error leaves exactly the one creation request, a
\* comment error leaves one creation request and one comment request, the ticket
\* in the tracker and no comment of this run; no run issues more than one request
\* of either kind.
C4_After ==
    /\ Cardinality(RequestsTo(requests', "jira")) <= 1
    /\ Cardinality(RequestsTo(requests', "github")) <= 1
    /\ error'.kind \in {"ConfigurationError", "PayloadError", "TypeError"} =>
          requests' = <<>> /\ (run' = run => tickets' = tickets /\ comments' = comments)
    /\ error'.kind = "TicketCreationError" =>
          /\ [i \in DOMAIN requests' |-> requests'[i].to] = <<"jira">>
          /\ run' = run => tickets' = tickets /\ comments' = comments
    /\ error'.kind = "CommentPostError" =>
          /\ [i \in DOMAIN requests' |-> requests'[i].to] = <<"jira", "github">>
          /\ \A i \in DOMAIN requests' : requests'[i].method = "POST"
          /\ \E t \in DOMAIN tickets' : tickets'[t].key = jiraKey'
          /\ run' = run => tickets' = tickets /\ comments' = comments
    /\ (pc' = "awaitComment" /\ ~ResOk(response'.status)) => comments' = comments

C4_FirstFailureTerminal ==
    [][ /\ (error # NoError /\ run' = run) => UNCHANGED vars
        /\ (error # NoError) = (pc = "failed")
        /\ C4_After ]_vars

C4_Witness ==
    /\ error.kind = "CommentPostError"
    /\ pc = "failed"
    /\ Len(requests) = 2
    /\ \E t \in DOMAIN tickets : tickets[t].key = jiraKey

\* C5: the priority of the payload is High exactly when the first element of the
\* severity sequence is a string that begins with "Major functionality not
\* working", and Medium in every other case.
C5_SeverityString ==
    LET v == RawField(IdSeverity)
    IN  IF v.t = "array" /\ v.a # <<>> THEN <<v.a[1]>> ELSE <<>>

C5_Priority ==
    jiraPayload # NoPayload =>
        /\ jiraPayload.priority \in {"High", "Medium"}
        /\ jiraPayload.priority = "High" <=>
              \E i \in DOMAIN C5_SeverityString :
                 \E rest \in {SubSeq(C5_SeverityString[i], k, Len(C5_SeverityString[i])) :
                                k \in 1..(Len(C5_SeverityString[i]) + 1)} :
                    C5_SeverityString[i] = MajorNotWorking \o rest

C5_Witness ==
    /\ jiraPayload # NoPayload
    /\ jiraPayload.priority = "High"
    /\ RawField(IdSeverity) # Arr(<<MajorNotWorking>>)

\* C6 as stated: the field mapping has exactly the 13 identifiers as keys and a
\* value is the placeholder text if and only if the raw value is absent or empty.
C6_SentinelIffMissing ==
    fieldLog # EmptyForm =>
        /\ DOMAIN fieldLog = FieldIdSet
        /\ Cardinality(DOMAIN fieldLog) = 13
        /\ \A id \in FieldIdSet :
              (fieldLog[id] = Str(MissingText(id))) <=> RawMissing(RawField(id))

\* C6: the field mapping has exactly the 13 identifiers as keys; the value of an
\* absent or empty field is the placeholder text; the value of any other field is
\* its normalized value (a sequence joined with ", ", a checkbox group unchanged,
\* anything else as text), which is the placeholder text only when the raw value
\* already is that text.
C6_Normalized(v) ==
    CASE v.t = "string" -> v
      [] v.t = "array" -> Str(join(v.a, <<",", " ">>))
      [] v.t = "checkboxes" -> v
      [] v.t = "number" /\ v.n = 0 -> Str(<<"0">>)
      [] OTHER -> Str(<<"[", "o", "b", "j", "e", "c", "t", " ",
                       "O", "b", "j", "e", "c", "t", "]">>)

C6_SentinelWhenMissing ==
    fieldLog # EmptyForm =>
        /\ DOMAIN fieldLog = FieldIdSet
        /\ Cardinality(DOMAIN fieldLog) = 13
        /\ \A id \in FieldIdSet :
              LET raw == RawField(id)
              IN  /\ RawMissing(raw) => fieldLog[id] = Str(MissingText(id))
                  /\ ~RawMissing(raw) =>
                        /\ fieldLog[id] = C6_Normalized(raw)
                        /\ fieldLog[id] = Str(MissingText(id)) =>
                              raw \in {Str(MissingText(id)), Arr(<<MissingText(id)>>)}

C6_Witness ==
    /\ fieldLog # EmptyForm
    /\ IdUnknownField \in DOMAIN form
    /\ ~RawMissing(RawField(IdUnknownField))
    /\ RawField(IdDevice) = Str(<<" ", "\t", "\n">>)
    /\ fieldLog[IdDevice] = Str(MissingText(IdDevice))

\* C7: the last block of the description is a paragraph with the placeholder text
\* when the logs field is absent or empty, and a code block with language shell
\* that holds the logs value for every other logs value.
C7_LogsBlock ==
    descriptionContent # <<>> =>
        LET last == descriptionContent[Len(descriptionContent)]
            raw == RawField(IdLogs)
        IN  /\ descriptionContent[Len(descriptionContent) - 1].type = "heading"
            /\ descriptionContent[Len(descriptionContent) - 1].text = IdLogs
            /\ IF RawMissing(raw)
               THEN last = [type |-> "paragraph", text |-> MissingText(IdLogs)]
               ELSE last.type = "codeBlock" /\ last.language = "shell"

\* C8 as stated: with 60 distinct GitHub labels the label set has 50 entries, four
\* fixed or derived labels followed by the first 46 GitHub labels.
C8_ManyDistinct ==
    LET g == [i \in DOMAIN ghLabels |-> sanitizeLabel(Str(ghLabels[i]))]
    IN  /\ jiraPayload # NoPayload
        /\ Len(g) >= 60
        /\ \A i, j \in DOMAIN g : g[i] = g[j] => i = j
        /\ \A i \in DOMAIN g :
              /\ g[i] \notin Range(FixedLabels)
              /\ ~startsWith(g[i], <<"g", "h", "-", "i", "s", "s", "u", "e", "-">>)
              /\ ~startsWith(g[i], <<"s", "d", "k", "-">>)

C8_FourThenFortySix ==
    C8_ManyDistinct =>
        LET g == [i \in DOMAIN ghLabels |-> sanitizeLabel(Str(ghLabels[i]))]
        IN  /\ Len(jiraPayload.labels) = 50
            /\ SubSeq(jiraPayload.labels, 5, 50) = SubSeq(g, 1, 46)

\* C8: with 60 (or more) distinct GitHub labels the label set has 50 entries: the
\* five fixed or derived labels (cmp, android, source-github, gh-issue-<number>,
\* sdk-<version>) followed by the first 45 GitHub labels in order.
C8_FiveThenFortyFive ==
    C8_ManyDistinct =>
        LET g == [i \in DOMAIN ghLabels |-> sanitizeLabel(Str(ghLabels[i]))]
            five == SubSeq(jiraPayload.labels, 1, 5)
        IN  /\ Len(jiraPayload.labels) = 50
            /\ five[1] = <<"c", "m", "p">>
            /\ five[2] = <<"a", "n", "d", "r", "o", "i", "d">>
            /\ five[3] = <<"s", "o", "u", "r", "c", "e", "-", "g", "i", "t", "h", "u", "b">>
            /\ five[4] = <<"g", "h", "-", "i", "s", "s", "u", "e", "-">>
                            \o NumToStr(event.issue.number)
            /\ startsWith(five[5], <<"s", "d", "k", "-">>)
            /\ SubSeq(jiraPayload.labels, 6, 50) = SubSeq(g, 1, 45)

C8_Witness ==
    /\ C8_ManyDistinct
    /\ Len(jiraPayload.labels) = 50
    /\ jiraPayload.labels[50] = <<"l", "-", "4", "5">>

\* the sdk label a given effective version asks for
C9_Label(version) == <<"s", "d", "k", "-">> \o sanitizeLabel(version)

C9_IsOther == 
    LET sv == RawField(IdSdkVersion)
    IN  sv.t = "array" /\ sv.a # <<>> /\ sv.a[1] = OtherSpecifyBelow

\* C9 as stated: the label set contains sdk-<sanitized version>, the version being
\* the sdk-version-other value (Other when absent) when the first element of
\* sdk-version is "Other (specify below)", otherwise the sdk-version value
\* (unknown when absent).  Absent is read either as undefined/null or as
\* absent-or-empty, and the value of a sequence either as its text or as its
\* joined elements: the statement holds if any reading does.
C9_SdkLabelOfValue ==
    jiraPayload # NoPayload =>
        LET sv == RawField(IdSdkVersion)
            so == RawField(IdSdkVersionOther)
            other == Str(<<"O", "t", "h", "e", "r">>)
            unknown == Str(<<"u", "n", "k", "n", "o", "w", "n">>)
            claimed ==
                IF C9_IsOther
                THEN (IF so \in {Undef, Null} THEN {} ELSE {so})
                         \cup (IF RawMissing(so) THEN {other} ELSE {})
                ELSE (IF sv \in {Undef, Null} THEN {} ELSE {sv, C6_Normalized(sv)})
                         \cup (IF RawMissing(sv) THEN {unknown} ELSE {})
        IN  \E v \in claimed : C9_Label(v) \in Range(jiraPayload.labels)

\* C9: the label set always contains sdk-<sanitized version>, the version being
\* the sdk-version-other value (Other when that is undefined or null) when the
\* first element of the sdk-version sequence is "Other (specify below)", and
\* otherwise the first element of the sdk-version sequence, or unknown when
\* sdk-version is not a sequence or is an empty one.  "Other (specify below)"
\* with the other field 14.2.0-beta gives sdk-14-2-0-beta.
C9_SdkLabelOfFirstElement ==
    jiraPayload # NoPayload =>
        LET sv == RawField(IdSdkVersion)
            so == RawField(IdSdkVersionOther)
            version ==
                IF C9_IsOther
                THEN IF so \in {Undef, Null} THEN Str(<<"O", "t", "h", "e", "r">>) ELSE so
                ELSE IF sv.t = "array" /\ sv.a # <<>>
                     THEN Str(sv.a[1])
                     ELSE Str(<<"u", "n", "k", "n", "o", "w", "n">>)
        IN  /\ C9_Label(version) \in Range(jiraPayload.labels)
            /\ (C9_IsOther /\ so = Str(TxtBeta)) =>
                  <<"s", "d", "k", "-", "1", "4", "-", "2", "-", "0", "-", "b", "e", "t", "a">>
                      \in Range(jiraPayload.labels)

C9_Witness ==
    /\ jiraPayload # NoPayload
    /\ RawField(IdSdkVersion) = Arr(<<OtherSpecifyBelow>>)
    /\ RawField(IdSdkVersionOther) = Str(TxtBeta)
    /\ jiraPayload.labels[5] =
          <<"s", "d", "k", "-", "1", "4", "-", "2", "-", "0", "-", "b", "e", "t", "a">>

\* C10: when every run so far on the issue event succeeded (each posted its
\* comment), each of them created its own ticket: after n runs the tracker holds n
\* tickets for the one issue, whatever earlier runs left behind.
C10_EveryRunCreatesATicket ==
    (pc = "done" /\ Len(comments) = run) =>
        /\ Len(tickets) = run
        /\ \A t \in DOMAIN tickets : tickets[t].issueNumber = event.issue.number
        /\ \A t, u \in DOMAIN tickets : tickets[t].key = tickets[u].key => t = u
        /\ jiraKey = tickets[run].key

C10_Witness ==
    /\ pc = "done"
    /\ run = 2
    /\ Len(comments) = 2
    /\ Len(tickets) = 2

====
